---- MODULE Spec2Model ----
(***************************************************************************)
(* Model of SelectorGroupChatManager.select_speaker and its helper         *)
(* _mentioned_agents, with the construction checks of SelectorGroupChat.   *)
(*                                                                         *)
(* Strings are sequences of one-character strings.  None is the one-element *)
(* sequence <<"None">>, whose element is not a character of Alphabet.       *)
(***************************************************************************)
EXTENDS Integers, Sequences, FiniteSets, TLC

VARIABLES
    status,                     \* "New" | "Ready" | "Rejected" (construction)
    participant_topic_types,    \* self._participant_topic_types
    allow_repeated_speaker,     \* self._allow_repeated_speaker
    selector_func,              \* TRUE iff self._selector_func is not None
    previous_speaker,           \* self._previous_speaker
    events,                     \* records handed to event_logger, oldest first
    returned,                   \* what select_speaker has returned, oldest first,
                                \* each with the path that produced it
    call,                       \* call[i]: the frame of invocation i of select_speaker
    rounds,                     \* number of invocations begun so far
    init_args,                  \* the arguments SelectorGroupChat.__init__ was called with
    matcher                     \* one application of _mentioned_agents on its own

vars == <<status, participant_topic_types, allow_repeated_speaker, selector_func,
          previous_speaker, events, returned, call, rounds, init_args, matcher>>

-----------------------------------------------------------------------------
(* Bounds *)

MaxTextLen == 3
MaxThreadLen == 1
MaxRounds == 3
MaxMatcherTextLen == 5

-----------------------------------------------------------------------------
(* Values *)

None == <<"None">>

WordChars == {"a", "b", "_"}
NonWordChars == {" ", "\\"}
Alphabet == WordChars \cup NonWordChars

Na == <<"a">>
Nb == <<"b">>
Nab == <<"a", "_", "b">>
Nz == <<"z">>

\* Participant lists offered to the constructor (names are unique).
ParticipantLists == { <<Na>>, <<Na, Nab>>, <<Na, Nb, Nab>> }

\* What a selector function may return: None or any string.
HookResults == {None, Na, Nz}

Placeholders == {"roles", "participants", "history"}

\* The placeholders a selector prompt contains.
Prompts == SUBSET Placeholders

MessageKinds == {"TextMessage", "StopMessage", "MultiModalMessage", "HandoffMessage"}

Threads == UNION { [1..n -> MessageKinds] : n \in 0..MaxThreadLen }

Texts == UNION { [1..n -> Alphabet] : n \in 0..MaxTextLen }

\* A response whose content is not a str (e.g. a list of function calls).
NonStringContent == <<"FunctionCalls">>

\* Two tasks that may call select_speaker on the one manager.
Callers == {"c1", "c2"}

EmptyMentions == [n \in {} |-> 0]

-----------------------------------------------------------------------------
(* _mentioned_agents *)

RECURSIVE Replace(_, _)
\* name.replace("_", rep)
Replace(name, rep) ==
    IF name = <<>> THEN <<>>
    ELSE (IF Head(name) = "_" THEN rep ELSE <<Head(name)>>) \o Replace(Tail(name), rep)

\* The three alternatives of the regex, in the order they are tried.
Spellings(name) == << name, Replace(name, <<" ">>), Replace(name, <<"\\", "_">>) >>

\* \W
IsNonWord(c) == c \notin WordChars

\* lit occurs in s starting at position pos
LiteralAt(s, pos, lit) ==
    /\ pos + Len(lit) - 1 <= Len(s)
    /\ \A k \in 1..Len(lit) : s[pos + k - 1] = lit[k]

\* (?<=\W) left out of the regex
LookBehindNone(s, pos) == TRUE

\* (?<=\W) at pos
LookBehind(s, pos) == pos > 1 /\ IsNonWord(s[pos - 1])

\* (?=\W) left out of the regex
LookAheadNone(s, last) == TRUE

\* (?=\W) after a match ending at position last
LookAhead(s, last) == last + 1 <= Len(s) /\ IsNonWord(s[last + 1])

\* Length of the match of (alt1|alt2|alt3)(?=\W) at pos; 0 when none matches.
\* sp holds the three alternatives.  They are tried in order, backtracking to
\* the next one when the lookahead fails.
MatchLenAt(s, pos, sp) ==
    IF LiteralAt(s, pos, sp[1]) /\ LookAhead(s, pos + Len(sp[1]) - 1) THEN Len(sp[1])
    ELSE IF LiteralAt(s, pos, sp[2]) /\ LookAhead(s, pos + Len(sp[2]) - 1) THEN Len(sp[2])
    ELSE IF LiteralAt(s, pos, sp[3]) /\ LookAhead(s, pos + Len(sp[3]) - 1) THEN Len(sp[3])
    ELSE 0

RECURSIVE FindAllFrom(_, _, _)
\* len(re.findall(regex, s)) restricted to matches starting at pos or later:
\* leftmost, non-overlapping matches.  Participant names are not empty, so a
\* match is not empty.
FindAllFrom(s, pos, sp) ==
    IF pos > Len(s) THEN 0
    ELSE LET n == IF LookBehind(s, pos) THEN MatchLenAt(s, pos, sp) ELSE 0
         IN  IF n > 0 THEN 1 + FindAllFrom(s, pos + n, sp)
             ELSE FindAllFrom(s, pos + 1, sp)

\* f" {message_content} "
Pad(message_content) == <<" ">> \o message_content \o <<" ">>

CountMentions(message_content, name) ==
    FindAllFrom(Pad(message_content), 1, Spellings(name))

MentionedAgents(message_content, agent_names) ==
    LET count == [k \in 1..Len(agent_names) |-> CountMentions(message_content, agent_names[k])]
        hit == { k \in 1..Len(agent_names) : count[k] > 0 }
    IN  [n \in { agent_names[k] : k \in hit } |->
            count[CHOOSE k \in hit : agent_names[k] = n]]

-----------------------------------------------------------------------------
(* What a text says, stated without the regex scan *)

\* Every spelling of every participant name, whatever its length.
NameSpellings ==
    { Spellings(n)[k] : n \in {Na, Nb, Nab}, k \in 1..3 }

Responses == Texts \cup NameSpellings \cup {NonStringContent}

\* lit stands in padded at pos with a non-word character right before it and
\* right after it.
Delimited(padded, pos, lit) ==
    /\ pos >= 2
    /\ pos + Len(lit) <= Len(padded)
    /\ SubSeq(padded, pos, pos + Len(lit) - 1) = lit
    /\ padded[pos - 1] \notin WordChars
    /\ padded[pos + Len(lit)] \notin WordChars

\* The occurrences of name in text, each as <<position, length>>: the places of
\* the space-padded text where one of the three spellings stands delimited.  A
\* place where several spellings stand is one occurrence.
Occurrences(text, name) ==
    LET padded == <<" ">> \o text \o <<" ">>
    IN  { iv \in (1..Len(padded)) \X (1..Len(padded)) :
            \E k \in 1..3 : /\ Len(Spellings(name)[k]) = iv[2]
                            /\ Delimited(padded, iv[1], Spellings(name)[k]) }

Apart(iv, jv) == iv[1] + iv[2] <= jv[1] \/ jv[1] + jv[2] <= iv[1]

\* The number of occurrences of name in text, counted without overlap: the
\* size of a largest set of occurrences that are pairwise apart.
OccurrenceCount(text, name) ==
    LET apart == { S \in SUBSET Occurrences(text, name) :
                      \A iv, jv \in S : iv = jv \/ Apart(iv, jv) }
    IN  CHOOSE n \in 0..(Len(text) + 2) :
            /\ \E S \in apart : Cardinality(S) = n
            /\ \A S \in apart : Cardinality(S) <= n

\* The names of the list that text names.
NamedIn(text, names) ==
    { n \in { names[k] : k \in 1..Len(names) } :
        \E padded \in { <<" ">> \o text \o <<" ">> }, sp \in { Spellings(n) } :
            \E pos \in 2..(Len(text) + 1), k \in 1..3 : Delimited(padded, pos, sp[k]) }

\* The names of the list of which text is one of the three spellings.
SpelledBy(text, names) ==
    { n \in { names[k] : k \in 1..Len(names) } : \E k \in 1..3 : Spellings(n)[k] = text }

-----------------------------------------------------------------------------
(* Construction: SelectorGroupChat.__init__ and the manager factory *)

EnoughParticipants(ps) == Len(ps) >= 2

\* lines 323-328 with the check for '{history}' forgotten
ValidPromptNoHistory(prompt) ==
    /\ "roles" \in prompt
    /\ "participants" \in prompt

ValidPrompt(prompt) ==
    /\ "roles" \in prompt
    /\ "participants" \in prompt
    /\ "history" \in prompt

-----------------------------------------------------------------------------
(* Pieces of select_speaker *)

\* line 60: the selector function gave a speaker
OverrideTakenFiltered(speaker) ==
    speaker # None /\ \E k \in 1..Len(participant_topic_types) : participant_topic_types[k] = speaker

OverrideTaken(speaker) == speaker # None

\* lines 60-63 return without assigning self._previous_speaker
PreviousSpeakerAfterOverrideStored(prev, speaker) == speaker

PreviousSpeakerAfterOverride(prev, speaker) == prev

\* lines 75-84 with the else branch skipping the message
UnexpectedMessageSkipped(thread) == FALSE

\* lines 75-84: some message is neither Text, Stop nor MultiModal
UnexpectedMessage(thread) ==
    \E k \in 1..Len(thread) :
        thread[k] \notin {"TextMessage", "StopMessage", "MultiModalMessage"}

\* lines 99-102 with `p != prev` replaced by the substring test `prev not in p`
CandidateFilterSubstring(all, prev, allow) ==
    IF prev # None /\ ~allow
    THEN SelectSeq(all, LAMBDA p : ~(\E pos \in 1..Len(p) : LiteralAt(p, pos, prev)))
    ELSE all

\* lines 99-102 without the exclusion
CandidateFilterNone(all, prev, allow) == all

\* lines 99-102
CandidateFilter(all, prev, allow) ==
    IF prev # None /\ ~allow
    THEN SelectSeq(all, LAMBDA p : p # prev)
    ELSE all

\* line 113 passing the candidate list of this round
MentionCandidatesEligible(all, participants) == participants

\* line 113: the names _mentioned_agents is given
MentionCandidates(all, participants) == all

\* line 108 showing every participant
PromptParticipantsAll(all, participants) == all

\* line 108: participants=str(participants)
PromptParticipants(all, participants) == participants

\* line 106 with an off-by-one
NeedsModelAlways(participants) == Len(participants) > 0

\* line 106
NeedsModel(participants) == Len(participants) > 1

\* line 114 accepting several mentions
ExactlyOneMentionLoose(mentions) == Cardinality(DOMAIN mentions) >= 1

\* line 114 (negated)
ExactlyOneMention(mentions) == Cardinality(DOMAIN mentions) = 1

\* line 116
FirstKey(mentions) == CHOOSE n \in DOMAIN mentions : TRUE

\* line 125 placed before the check of line 114
PreviousSpeakerOnRaiseEarly(prev, mentions) ==
    IF DOMAIN mentions # {} THEN FirstKey(mentions) ELSE prev

\* the raise of line 115 leaves self._previous_speaker alone
PreviousSpeakerOnRaise(prev, mentions) == prev

\* line 125 missing
PreviousSpeakerAfterSelectKept(prev, agent_name) == prev

\* line 125
PreviousSpeakerAfterSelect(prev, agent_name) == agent_name

\* lines 62 and 126 missing
EmitDropped(log, speaker) == log

\* lines 62 and 126: event_logger.debug(GroupChatSelectSpeakerEvent(...))
Emit(log, speaker) == Append(log, [selected_speaker |-> speaker, source |-> "manager"])

\* lines 117-122: the warning condition
RepeatWarning(agent_name, prev, allow) == ~allow /\ prev # None /\ agent_name = prev

\* The frame of an invocation that is not running.
IdleFrame ==
    [pc |-> "Idle", speaker |-> None, participants |-> <<>>, agent_name |-> None,
     error |-> "none", entry_prev |-> None, entry_events |-> 0, model_calls |-> 0,
     mention_calls |-> 0, mentions |-> EmptyMentions, warned |-> FALSE,
     filtered |-> FALSE, unsupported |-> FALSE, prompt_participants |-> <<>>,
     agent_names |-> <<>>, named |-> {}, spelled |-> {}]

\* Before SelectorGroupChat.__init__ is called.
NoArgs == [participants |-> <<>>, selector_prompt |-> {}]

\* _mentioned_agents is not being applied on its own.
MatcherOff == [pc |-> "off", message_content |-> <<>>, agent_names |-> <<>>,
               mentions |-> EmptyMentions]

\* No caller enters select_speaker while an invocation is running.
CallerMayInvokeAlways(i) == TRUE

CallerMayInvoke(i) == \A j \in Callers : call[j].pc = "Idle"

-----------------------------------------------------------------------------
(* Actions *)

Init ==
    /\ status = "New"
    /\ participant_topic_types = <<>>
    /\ allow_repeated_speaker = FALSE
    /\ selector_func = FALSE
    /\ previous_speaker = None
    /\ events = <<>>
    /\ returned = <<>>
    /\ call = [i \in Callers |-> IdleFrame]
    /\ rounds = 0
    /\ init_args = NoArgs
    /\ matcher = MatcherOff

\* SelectorGroupChat(participants, selector_prompt=..., allow_repeated_speaker=...,
\* selector_func=...) followed by the creation of the manager.
Construct(ps, prompt, allow, func) ==
    /\ status = "New"
    /\ IF ~EnoughParticipants(ps) \/ ~ValidPrompt(prompt)
       THEN /\ status' = "Rejected"
            /\ UNCHANGED <<participant_topic_types, allow_repeated_speaker, selector_func>>
       ELSE /\ status' = "Ready"
            /\ participant_topic_types' = ps
            /\ allow_repeated_speaker' = allow
            /\ selector_func' = func
    /\ previous_speaker' = None
    /\ init_args' = [participants |-> ps, selector_prompt |-> prompt]
    /\ UNCHANGED <<events, returned, call, rounds, matcher>>

\* select_speaker from its entry to its first await, return or raise.
\* hook is what the selector function returns for this thread.
SelectSpeaker(i, thread, hook) ==
    /\ status = "Ready"
    /\ call[i].pc = "Idle"
    /\ CallerMayInvoke(i)
    /\ rounds < MaxRounds
    /\ rounds' = rounds + 1
    /\ LET speaker == IF selector_func THEN hook ELSE None
           entry == [IdleFrame EXCEPT !.speaker = speaker,
                                      !.entry_prev = previous_speaker,
                                      !.entry_events = Len(events),
                                      !.unsupported =
                                          \E k \in 1..Len(thread) :
                                              thread[k] = "HandoffMessage"]
           ps == CandidateFilter(participant_topic_types, previous_speaker,
                                 allow_repeated_speaker)
       IN  IF OverrideTaken(speaker)
           THEN /\ events' = Emit(events, speaker)
                /\ returned' = Append(returned, [speaker |-> speaker, path |-> "override",
                                                 eligible |-> FALSE])
                /\ previous_speaker' = PreviousSpeakerAfterOverride(previous_speaker, speaker)
                /\ call' = [call EXCEPT ![i] =
                               [entry EXCEPT !.pc = "Selected", !.agent_name = speaker]]
           ELSE IF UnexpectedMessage(thread)
           THEN /\ call' = [call EXCEPT ![i] =
                               [entry EXCEPT !.pc = "Failed", !.error = "UnexpectedMessage"]]
                /\ UNCHANGED <<previous_speaker, events, returned>>
           ELSE IF Len(ps) = 0
           THEN /\ call' = [call EXCEPT ![i] =
                               [entry EXCEPT !.pc = "Failed", !.error = "EmptyCandidates",
                                             !.filtered = TRUE]]
                /\ UNCHANGED <<previous_speaker, events, returned>>
           ELSE IF NeedsModel(ps)
           THEN /\ call' = [call EXCEPT ![i] =
                               [entry EXCEPT !.pc = "AwaitModel", !.participants = ps,
                                             !.filtered = TRUE, !.model_calls = 1,
                                             !.prompt_participants =
                                                 PromptParticipants(participant_topic_types,
                                                                    ps)]]
                /\ UNCHANGED <<previous_speaker, events, returned>>
           ELSE /\ previous_speaker' = PreviousSpeakerAfterSelect(previous_speaker, ps[1])
                /\ events' = Emit(events, ps[1])
                /\ returned' = Append(returned, [speaker |-> ps[1], path |-> "shortcut",
                                                 eligible |-> TRUE])
                /\ call' = [call EXCEPT ![i] =
                               [entry EXCEPT !.pc = "Selected", !.participants = ps,
                                             !.filtered = TRUE, !.agent_name = ps[1]]]
    /\ UNCHANGED <<status, participant_topic_types, allow_repeated_speaker, selector_func,
                   init_args, matcher>>

\* The completion client returns and line 111 is awaited again.
ModelReturnsAwaitedAgain(i, content) ==
    /\ call[i].pc = "AwaitModel"
    /\ call' = [call EXCEPT ![i].model_calls = 3 - @]
    /\ UNCHANGED <<status, participant_topic_types, allow_repeated_speaker, selector_func,
                   previous_speaker, events, returned, rounds, init_args, matcher>>

\* The completion client returns; select_speaker runs from line 112 to its end.
ModelReturns(i, content) ==
    /\ call[i].pc = "AwaitModel"
    /\ IF content = NonStringContent
       THEN /\ call' = [call EXCEPT ![i].pc = "Failed", ![i].error = "NonStringContent"]
            /\ UNCHANGED <<previous_speaker, events, returned>>
       ELSE \E mentions \in { MentionedAgents(content,
                                   MentionCandidates(participant_topic_types,
                                                     call[i].participants)) } :
            \* line 113: mentions is computed once
            LET parsed == [call[i] EXCEPT !.mentions = mentions,
                                          !.mention_calls = @ + 1,
                                          !.agent_names =
                                              MentionCandidates(participant_topic_types,
                                                                call[i].participants),
                                          !.named = NamedIn(content, participant_topic_types),
                                          !.spelled = SpelledBy(content,
                                                                participant_topic_types)]
            IN  IF ~ExactlyOneMention(mentions)
                THEN /\ call' = [call EXCEPT ![i] =
                                    [parsed EXCEPT !.pc = "Failed",
                                                   !.error = "AmbiguousSelection"]]
                     /\ previous_speaker' = PreviousSpeakerOnRaise(previous_speaker, mentions)
                     /\ UNCHANGED <<events, returned>>
                ELSE LET agent_name == FirstKey(mentions)
                     IN  /\ call' = [call EXCEPT ![i] =
                                        [parsed EXCEPT !.pc = "Selected",
                                                       !.agent_name = agent_name,
                                                       !.warned = RepeatWarning(agent_name,
                                                                      previous_speaker,
                                                                      allow_repeated_speaker)]]
                         /\ previous_speaker' =
                                PreviousSpeakerAfterSelect(previous_speaker, agent_name)
                         /\ events' = Emit(events, agent_name)
                         /\ returned' = Append(returned,
                                            [speaker |-> agent_name, path |-> "model",
                                             eligible |-> \E k \in 1..Len(call[i].participants) :
                                                 call[i].participants[k] = agent_name])
    /\ UNCHANGED <<status, participant_topic_types, allow_repeated_speaker, selector_func,
                   rounds, init_args, matcher>>

\* The completion client raises and line 111 is tried a second time.
ModelRaisesRetried(i) ==
    /\ call[i].pc = "AwaitModel"
    /\ call' = IF call[i].model_calls < 2
               THEN [call EXCEPT ![i].model_calls = @ + 1]
               ELSE [call EXCEPT ![i].pc = "Failed", ![i].error = "ModelFailure"]
    /\ UNCHANGED <<status, participant_topic_types, allow_repeated_speaker, selector_func,
                   previous_speaker, events, returned, rounds, init_args, matcher>>

\* The completion client raises; the exception propagates out of select_speaker.
ModelRaises(i) ==
    /\ call[i].pc = "AwaitModel"
    /\ call' = [call EXCEPT ![i].pc = "Failed", ![i].error = "ModelFailure"]
    /\ UNCHANGED <<status, participant_topic_types, allow_repeated_speaker, selector_func,
                   previous_speaker, events, returned, rounds, init_args, matcher>>

\* The awaiting task is cancelled; CancelledError propagates out of select_speaker.
Cancel(i) ==
    /\ call[i].pc = "AwaitModel"
    /\ call' = [call EXCEPT ![i].pc = "Failed", ![i].error = "Cancelled"]
    /\ UNCHANGED <<status, participant_topic_types, allow_repeated_speaker, selector_func,
                   previous_speaker, events, returned, rounds, init_args, matcher>>

\* The caller takes the result or the exception; the invocation is over.
Return(i) ==
    /\ call[i].pc \in {"Selected", "Failed"}
    /\ call' = [call EXCEPT ![i] = IdleFrame]
    /\ UNCHANGED <<status, participant_topic_types, allow_repeated_speaker, selector_func,
                   previous_speaker, events, returned, rounds, init_args, matcher>>

Next ==
    \/ \E ps \in ParticipantLists, prompt \in Prompts, allow \in BOOLEAN, func \in BOOLEAN :
          Construct(ps, prompt, allow, func)
    \/ \E i \in Callers, thread \in Threads, hook \in HookResults :
          SelectSpeaker(i, thread, hook)
    \/ \E i \in Callers, content \in Responses : ModelReturns(i, content)
    \/ \E i \in Callers : ModelRaises(i)
    \/ \E i \in Callers : Cancel(i)
    \/ \E i \in Callers : Return(i)

Spec == Init /\ [][Next]_vars

\* The awaited model call comes back (with an answer, an exception or a
\* cancellation) and the event loop resumes the caller of a finished round.
FairSpec ==
    /\ Spec
    /\ \A i \in Callers :
          /\ WF_vars(/\ call[i].pc = "AwaitModel"
                      /\ \/ ModelRaises(i)
                         \/ Cancel(i)
                         \/ \E content \in Responses : ModelReturns(i, content))
          /\ WF_vars(Return(i))

-----------------------------------------------------------------------------
(* _mentioned_agents applied on its own to every text and name list in bounds *)

Naa == <<"a", "_", "a">>

MatcherTexts == UNION { [1..n -> Alphabet] : n \in 0..MaxMatcherTextLen }

MatcherNameLists == { <<Na, Nb, Nab>>, <<Nab, Na>>, <<Na, Naa>> }

MatcherInit ==
    /\ status = "New"
    /\ participant_topic_types = <<>>
    /\ allow_repeated_speaker = FALSE
    /\ selector_func = FALSE
    /\ previous_speaker = None
    /\ events = <<>>
    /\ returned = <<>>
    /\ call = [i \in Callers |-> IdleFrame]
    /\ rounds = 0
    /\ init_args = NoArgs
    /\ \E text \in MatcherTexts, names \in MatcherNameLists :
          matcher = [pc |-> "called", message_content |-> text, agent_names |-> names,
                     mentions |-> EmptyMentions]

\* self._mentioned_agents(message_content, agent_names) runs and returns.
ApplyMentionedAgents ==
    /\ matcher.pc = "called"
    /\ matcher' = [matcher EXCEPT !.pc = "returned",
                                  !.mentions = MentionedAgents(matcher.message_content,
                                                               matcher.agent_names)]
    /\ UNCHANGED <<status, participant_topic_types, allow_repeated_speaker, selector_func,
                   previous_speaker, events, returned, call, rounds, init_args>>

MatcherNext == ApplyMentionedAgents

MatcherSpec == MatcherInit /\ [][MatcherNext]_vars

-----------------------------------------------------------------------------
(* Properties *)

Range(seq) == { seq[k] : k \in 1..Len(seq) }

Running(i) == call[i].pc # "Idle"

\* C1: a round in which the selector function returned a speaker ends
\* Selected with exactly that speaker, participant or not, without a call of
\* the model client and without a call of _mentioned_agents.
C1_OverridePrecedence ==
    \A i \in Callers :
        (Running(i) /\ call[i].speaker # None) =>
            /\ call[i].pc = "Selected"
            /\ call[i].agent_name = call[i].speaker
            /\ call[i].model_calls = 0
            /\ call[i].mention_calls = 0
            /\ ~call[i].filtered

C1_Witness ==
    \E i \in Callers :
        /\ call[i].pc = "Selected"
        /\ call[i].speaker = Nz
        /\ call[i].speaker \notin Range(participant_topic_types)

\* C2: a round without an override decision whose candidate list has exactly
\* one member ends Selected with that member, without a call of the model client.
C2_SingleCandidateShortcut ==
    \A i \in Callers :
        (call[i].filtered /\ call[i].speaker = None /\ Len(call[i].participants) = 1) =>
            /\ call[i].pc = "Selected"
            /\ call[i].agent_name = call[i].participants[1]
            /\ call[i].model_calls = 0

C2_Witness ==
    \E i \in Callers :
        /\ call[i].pc = "Selected"
        /\ call[i].filtered
        /\ Len(call[i].participants) = 1
        /\ call[i].entry_prev # None

\* C3: once the model's answer has been parsed, the round is Failed with
\* AmbiguousSelection and previous_speaker is what it was on entry whenever the
\* answer mentions no participant or several; the round is Selected exactly when
\* one participant is mentioned, and that participant is the selection.
C3_AmbiguityRejection ==
    \A i \in Callers :
        call[i].mention_calls > 0 =>
            /\ Cardinality(DOMAIN call[i].mentions) # 1 =>
                  /\ call[i].pc = "Failed"
                  /\ call[i].error = "AmbiguousSelection"
                  /\ previous_speaker = call[i].entry_prev
            /\ Cardinality(DOMAIN call[i].mentions) = 1 =>
                  /\ call[i].pc = "Selected"
                  /\ call[i].agent_name \in DOMAIN call[i].mentions

C3_Witness ==
    \E i \in Callers :
        /\ call[i].pc = "Failed"
        /\ Cardinality(DOMAIN call[i].mentions) >= 2
        /\ call[i].entry_prev # None

\* C4 as stated: after every round that ends Selected, by any path,
\* previous_speaker is the speaker returned.
C4_AsStated ==
    \A i \in Callers :
        call[i].pc = "Selected" => previous_speaker = call[i].agent_name

\* C4: after a round that ends Selected by the single-candidate shortcut or by
\* the model's answer, previous_speaker is the speaker returned; after a round
\* decided by the selector function, previous_speaker is what it was on entry.
C4_StateUpdateOnSelected ==
    \A i \in Callers :
        call[i].pc = "Selected" =>
            IF call[i].speaker # None
            THEN previous_speaker = call[i].entry_prev
            ELSE previous_speaker = call[i].agent_name

C4_Witness ==
    \E i \in Callers :
        /\ call[i].pc = "Selected"
        /\ call[i].speaker = None
        /\ call[i].mention_calls = 1
        /\ previous_speaker = call[i].agent_name
        /\ call[i].entry_prev # call[i].agent_name

TwoParty == status = "Ready" /\ Len(participant_topic_types) = 2 /\ ~allow_repeated_speaker

\* The participant of a two-participant chat that is not p.
Other(p) == CHOOSE q \in Range(participant_topic_types) : q # p

NoOverrideSoFar == \A k \in 1..Len(returned) : returned[k].path # "override"

Alternating == \A k \in 1..(Len(returned) - 1) : returned[k].speaker # returned[k + 1].speaker

\* The later round of C5 selected the other participant without the model.
SelectedOther(i) ==
    /\ call[i].pc = "Selected"
    /\ call[i].participants = << Other(call[i].entry_prev) >>
    /\ call[i].agent_name = Other(call[i].entry_prev)
    /\ call[i].model_calls = 0

\* C5 as stated: with two participants and repeats disallowed, every round
\* without an override decision that starts after a participant was selected
\* selects the other participant without the model; selections alternate.
C5_AsStated ==
    TwoParty =>
        /\ \A i \in Callers :
              (Running(i) /\ call[i].speaker = None /\ call[i].entry_prev # None) =>
                  SelectedOther(i)
        /\ NoOverrideSoFar => Alternating

\* C5: with two participants and repeats disallowed, every round without an
\* override decision that starts after a participant was selected either fails
\* while rendering a thread with an unexpected message type, leaving
\* previous_speaker alone, or selects the other participant without calling the
\* model; it never fails with AmbiguousSelection, and as long as no round was
\* decided by the selector function the speakers returned alternate.
C5_RepeatExclusionTwoParticipants ==
    TwoParty =>
        /\ \A i \in Callers :
              (Running(i) /\ call[i].speaker = None /\ call[i].entry_prev # None) =>
                  \/ SelectedOther(i)
                  \/ /\ call[i].pc = "Failed"
                     /\ call[i].error = "UnexpectedMessage"
                     /\ call[i].model_calls = 0
                     /\ previous_speaker = call[i].entry_prev
        /\ NoOverrideSoFar => Alternating

C5_Witness ==
    /\ TwoParty
    /\ Len(returned) = 3
    /\ NoOverrideSoFar
    /\ returned[1].speaker = returned[3].speaker
    /\ \E i \in Callers : SelectedOther(i)

\* C6: previous_speaker equals its value on entry while a round awaits the model
\* and after it has failed, for every kind of failure; previous_speaker changes
\* only in the step that ends a round Selected, and then to the speaker returned.
C6_NoPartialStateMutation ==
    [][ /\ \A i \in Callers :
              call'[i].pc \in {"AwaitModel", "Failed"} =>
                  previous_speaker' = call'[i].entry_prev
        /\ previous_speaker' # previous_speaker =>
              \E i \in Callers :
                  /\ call[i].pc # "Selected"
                  /\ call'[i].pc = "Selected"
                  /\ previous_speaker' = call'[i].agent_name ]_vars

C6_Witness ==
    \E i \in Callers :
        /\ call[i].pc = "Failed"
        /\ call[i].error = "Cancelled"
        /\ call[i].entry_prev # None
        /\ previous_speaker = call[i].entry_prev

\* C7: previous_speaker is None or one of the participants given at
\* construction, also after rounds decided by a selector function that
\* returned a name outside the participant list.
C7_PreviousSpeakerIsParticipant ==
    previous_speaker = None \/ previous_speaker \in Range(participant_topic_types)

C7_Witness ==
    /\ previous_speaker # None
    /\ \E k \in 1..Len(returned) :
          returned[k].path = "override" /\ returned[k].speaker \notin Range(participant_topic_types)
    /\ \E i \in Callers : call[i].pc = "Selected" /\ call[i].speaker = Nz

UniqueNames(ps) == \A j, k \in 1..Len(ps) : ps[j] = ps[k] => j = k

\* C8: in an engine constructed with at least two uniquely named participants,
\* every round that computes the candidate list gets a non-empty list, and no
\* round fails on the non-emptiness assertion.
C8_CandidatesNonEmpty ==
    (status = "Ready" /\ Len(participant_topic_types) >= 2
        /\ UniqueNames(participant_topic_types)) =>
        \A i \in Callers :
            /\ call[i].filtered => Len(call[i].participants) > 0
            /\ call[i].error # "EmptyCandidates"

C8_Witness ==
    \E i \in Callers :
        /\ call[i].filtered
        /\ call[i].entry_prev # None
        /\ ~allow_repeated_speaker
        /\ Len(call[i].participants) = Len(participant_topic_types) - 1
        /\ Len(call[i].participants) > 0

\* C9: at most one invocation of select_speaker is between its entry and its
\* return or raise at any time.
C9_SingleFlight ==
    Cardinality({ i \in Callers : Running(i) }) <= 1

C9_Witness ==
    /\ \E i \in Callers : call[i].pc = "AwaitModel"
    /\ \E j \in Callers : call[j].pc = "Idle"
    /\ rounds < MaxRounds

\* C10: the events logged are, in order, exactly the speakers returned: a round
\* that ends Selected has logged one event since its entry, naming the speaker
\* it returns, on each path; a round that awaits the model or has failed has
\* logged none.
C10_Observability ==
    /\ Len(events) = Len(returned)
    /\ \A k \in 1..Len(events) : events[k].selected_speaker = returned[k].speaker
    /\ \A i \in Callers :
          /\ call[i].pc = "Selected" =>
                /\ Len(events) = call[i].entry_events + 1
                /\ events[Len(events)].selected_speaker = call[i].agent_name
          /\ call[i].pc \in {"AwaitModel", "Failed"} =>
                Len(events) = call[i].entry_events

C10_Witness ==
    /\ Len(events) = 3
    /\ { returned[k].path : k \in 1..Len(returned) } = {"override", "shortcut", "model"}
    /\ \E i \in Callers : call[i].pc = "Selected"

\* C11: an engine whose selector prompt lacks one of the three placeholders,
\* or that was given fewer than two participants, is rejected by the
\* constructor, and no round ever starts, returns or logs on it.
C11_ConstructionFailsFast ==
    (status # "New" /\ (Len(init_args.participants) < 2
                        \/ ~(Placeholders \subseteq init_args.selector_prompt))) =>
        /\ status = "Rejected"
        /\ rounds = 0
        /\ \A i \in Callers : call[i].pc = "Idle"
        /\ returned = <<>>
        /\ events = <<>>

C11_Witness ==
    /\ status = "Rejected"
    /\ Len(init_args.participants) >= 2
    /\ init_args.selector_prompt = {"roles", "participants"}

\* C12: _mentioned_agents returns, for every text and name list, the map from
\* each listed name that occurs in the text to its number of occurrences
\* (counted without overlap); a name that does not occur is not a key.
C12_MentionMatcherResult ==
    matcher.pc = "returned" =>
        /\ DOMAIN matcher.mentions \subseteq Range(matcher.agent_names)
        /\ \A n \in Range(matcher.agent_names) :
              LET c == OccurrenceCount(matcher.message_content, n)
              IN  IF c = 0 THEN n \notin DOMAIN matcher.mentions
                  ELSE n \in DOMAIN matcher.mentions /\ matcher.mentions[n] = c

\* "ab a ": a inside ab is not counted, a on its own is.
C12_Witness ==
    /\ matcher.pc = "returned"
    /\ matcher.message_content = <<"a", "b", " ", "a", " ">>
    /\ matcher.agent_names = <<Na, Nb, Nab>>
    /\ matcher.mentions = [n \in {Na} |-> 1]

\* The participants a round entered with this previous speaker may choose from.
EligibleSet(i) ==
    IF call[i].entry_prev # None /\ ~allow_repeated_speaker
    THEN Range(participant_topic_types) \ {call[i].entry_prev}
    ELSE Range(participant_topic_types)

\* C13 as stated: a round without an override decision whose eligible set has
\* exactly one member ends Selected with that member whatever the thread holds.
C13_AsStated ==
    \A i \in Callers :
        (Running(i) /\ call[i].speaker = None /\ Cardinality(EligibleSet(i)) = 1) =>
            /\ call[i].pc = "Selected"
            /\ {call[i].agent_name} = EligibleSet(i)

\* C13: a round without an override decision whose eligible set has exactly
\* one member ends Selected with that member, without a model call, when every
\* message of the thread is of a supported type; when some message is not, the
\* round is Failed with UnexpectedMessage before the candidates are computed,
\* and previous_speaker and the event log are what they were on entry.
C13_ShortcutAfterRendering ==
    \A i \in Callers :
        (Running(i) /\ call[i].speaker = None /\ Cardinality(EligibleSet(i)) = 1) =>
            /\ call[i].model_calls = 0
            /\ ~call[i].unsupported =>
                  /\ call[i].pc = "Selected"
                  /\ {call[i].agent_name} = EligibleSet(i)
            /\ call[i].unsupported =>
                  /\ call[i].pc = "Failed"
                  /\ call[i].error = "UnexpectedMessage"
                  /\ ~call[i].filtered
                  /\ previous_speaker = call[i].entry_prev
                  /\ Len(events) = call[i].entry_events

C13_Witness ==
    \E i \in Callers :
        /\ call[i].pc = "Failed"
        /\ call[i].unsupported
        /\ call[i].speaker = None
        /\ Cardinality(EligibleSet(i)) = 1
        /\ Len(participant_topic_types) = 2

C15_MentionsAgainstFullList ==
    \A i \in Callers :
        call[i].mention_calls = 1 =>
            /\ call[i].agent_names = participant_topic_types
            /\ DOMAIN call[i].mentions = call[i].named
            /\ (/\ ~allow_repeated_speaker
                /\ call[i].entry_prev # None
                /\ call[i].entry_prev \in call[i].named
                /\ Cardinality(call[i].named \cap EligibleSet(i)) = 1) =>
                   /\ DOMAIN call[i].mentions \ EligibleSet(i) = {call[i].entry_prev}
                   /\ Cardinality(DOMAIN call[i].mentions) = 2
                   /\ call[i].pc = "Failed"
                   /\ call[i].error = "AmbiguousSelection"
                   /\ previous_speaker = call[i].entry_prev

C15_Witness ==
    \E i \in Callers :
        /\ call[i].pc = "Failed"
        /\ call[i].error = "AmbiguousSelection"
        /\ ~allow_repeated_speaker
        /\ call[i].entry_prev = Nb
        /\ call[i].named = {Na, Nb}
        /\ call[i].participants = <<Na, Nab>>

\* e lists the members of all other than those in drop, each once, in the
\* order they have in all.
IsSublistWithout(e, all, drop) ==
    /\ Range(e) = Range(all) \ drop
    /\ \A j, k \in 1..Len(e) : j < k =>
          \E a, b \in 1..Len(all) : a < b /\ all[a] = e[j] /\ all[b] = e[k]

\* C16: in every round that reaches the filter the candidate list is the
\* participant list without the previous speaker when there is one and
\* repeats are disallowed, and the whole participant list otherwise, in the
\* order of the participant list; that list is what the prompt shows.
C16_CandidateFilterResult ==
    \A i \in Callers :
        call[i].filtered =>
            /\ IsSublistWithout(call[i].participants, participant_topic_types,
                                IF call[i].entry_prev # None /\ ~allow_repeated_speaker
                                THEN {call[i].entry_prev} ELSE {})
            /\ (call[i].entry_prev = None \/ allow_repeated_speaker) =>
                  call[i].participants = participant_topic_types
            /\ call[i].model_calls = 1 =>
                  call[i].prompt_participants = call[i].participants

C16_Witness ==
    \E i \in Callers :
        /\ call[i].pc = "AwaitModel"
        /\ ~allow_repeated_speaker
        /\ call[i].entry_prev = Nb
        /\ call[i].prompt_participants = <<Na, Nab>>

\* C17: a round calls the model client at most once; it calls it exactly when
\* the selector function gave no speaker, every message of the thread is of a
\* supported type and two or more participants are eligible; when that call
\* raises the round is Failed and the client has been called once.
C17_ModelInvocationCount ==
    \A i \in Callers :
        /\ call[i].model_calls <= 1
        /\ Running(i) =>
              (call[i].model_calls = 1 <=>
                  /\ call[i].speaker = None
                  /\ ~call[i].unsupported
                  /\ Cardinality(EligibleSet(i)) >= 2)
        /\ call[i].error = "ModelFailure" =>
              /\ call[i].pc = "Failed"
              /\ call[i].model_calls = 1
              /\ call[i].mention_calls = 0
              /\ previous_speaker = call[i].entry_prev
              /\ Len(events) = call[i].entry_events

C17_Witness ==
    \E i \in Callers :
        /\ call[i].pc = "Failed"
        /\ call[i].error = "ModelFailure"
        /\ call[i].model_calls = 1
        /\ call[i].entry_prev # None

\* C18: every round that waits for the model ends Selected or Failed once the
\* model call comes back, a round never waits anywhere else, every finished
\* round is handed back to the caller, and an idle engine takes the next round.
C18_RoundTermination ==
    \A i \in Callers :
        /\ (call[i].pc = "AwaitModel") ~> (call[i].pc \in {"Selected", "Failed"})
        /\ (call[i].pc \in {"Selected", "Failed"}) ~> (call[i].pc = "Idle")
        /\ [](call[i].pc \in {"Idle", "AwaitModel", "Selected", "Failed"})
        /\ []((status = "Ready" /\ rounds < MaxRounds
                /\ \A j \in Callers : call[j].pc = "Idle") =>
                   ENABLED (\E thread \in Threads, hook \in HookResults :
                               SelectSpeaker(i, thread, hook)))

C18_Witness ==
    \E i \in Callers :
        /\ call[i].pc = "Idle"
        /\ rounds = MaxRounds
        /\ Len(returned) = MaxRounds
        /\ returned[MaxRounds].path = "model"

\* C19 as stated: with pairwise distinct names, an answer that is one
\* participant's name in one of its three spellings gives exactly one key,
\* that participant, and the round selects it.
C19_AsStated ==
    \A i \in Callers :
        (/\ call[i].mention_calls = 1
         /\ UniqueNames(participant_topic_types)
         /\ call[i].spelled # {}) =>
            /\ DOMAIN call[i].mentions = call[i].spelled
            /\ call[i].pc = "Selected"
            /\ {call[i].agent_name} = call[i].spelled

\* C19: with pairwise distinct names, an answer that is one participant's name
\* in one of its three spellings has that participant as a key, counted once.
\* When the answer names no other participant it is the only key and the round
\* selects it; when another participant's name stands delimited inside the
\* spelling (a within "a b" or "a\_b"), that participant is a key too and the
\* round is Failed with AmbiguousSelection, previous_speaker unchanged.
C19_NamesCrossCount ==
    \A i \in Callers :
        (/\ call[i].mention_calls = 1
         /\ UniqueNames(participant_topic_types)
         /\ call[i].spelled # {}) =>
            /\ Cardinality(call[i].spelled) = 1
            /\ \A n \in call[i].spelled :
                  n \in DOMAIN call[i].mentions /\ call[i].mentions[n] = 1
            /\ call[i].named = call[i].spelled =>
                  /\ DOMAIN call[i].mentions = call[i].spelled
                  /\ call[i].pc = "Selected"
                  /\ {call[i].agent_name} = call[i].spelled
            /\ call[i].named # call[i].spelled =>
                  /\ Cardinality(DOMAIN call[i].mentions) >= 2
                  /\ call[i].pc = "Failed"
                  /\ call[i].error = "AmbiguousSelection"
                  /\ previous_speaker = call[i].entry_prev

\* Participants a and a_b, answer "a b" or "a\_b".
C19_Witness ==
    \E i \in Callers :
        /\ call[i].pc = "Failed"
        /\ participant_topic_types = <<Na, Nab>>
        /\ call[i].spelled = {Nab}
        /\ call[i].named = {Na, Nab}

\* C20: with repeats disallowed and no selector function, a round that
\* returns one of its candidates never returns the speaker the round before
\* it returned, whatever rounds failed in between.
C20_NoConsecutiveRepeat ==
    (status = "Ready" /\ ~allow_repeated_speaker /\ ~selector_func) =>
        \A k \in 1..(Len(returned) - 1) :
            returned[k + 1].eligible => returned[k + 1].speaker # returned[k].speaker

C20_Witness ==
    /\ status = "Ready" /\ ~allow_repeated_speaker /\ ~selector_func
    /\ Len(participant_topic_types) = 3
    /\ rounds = 3
    /\ Len(returned) = 2
    /\ returned[1] = [speaker |-> Nb, path |-> "model", eligible |-> TRUE]
    /\ returned[2] = [speaker |-> Nab, path |-> "model", eligible |-> TRUE]
    /\ \E i \in Callers : call[i].pc = "Failed" /\ call[i].error = "AmbiguousSelection"

====
